---- MODULE Spec2Model ----
(***************************************************************************)
(* A model of the D-Bus client core: the connection (SASL handshake,       *)
(* serial assignment, the call_method read loop, the mapping of ERROR      *)
(* frames to ConnectionError), the parsed type-signature engine (parse,    *)
(* validate, string forms, string_len, alignment, equality and ordering)   *)
(* and the unixexec transport (options, the bridging task).                *)
(*                                                                         *)
(* Byte strings are sequences of one-character strings.  The message codec *)
(* (message.rs, message_field.rs, Variant) is not part of the sources at   *)
(* hand: a decoded frame is a record of what the codec's accessors return, *)
(* and every accessor that returns a Result may fail.                      *)
(***************************************************************************)
EXTENDS Integers, Sequences, FiniteSets, TLC

VARIABLES
    pc,           \* where the client is: new_session's steps, call_method's loop, or idle
    caller,       \* who runs call_method: "hello" (new_session) or "user"
    okLine,       \* new_session's `buf`: the line read after AUTH (kept until the
                  \* connection is first used, <<>> afterwards)
    server_guid,  \* Connection::server_guid (a token; <<>> before it is set)
    serial,       \* Connection::serial, a u32
    cur,          \* call_method's local `serial`
    written,      \* every write made on the socket, in order
    inc,          \* call_method's `incoming` between the two reads of an iteration
    result,       \* what the last call_method / new_session returned
    hdrShort,     \* the last header read delivered fewer bytes than the buffer holds
    bodyShort,    \* the last body read delivered fewer bytes than bytes_to_completion
    shortWrite,   \* the write of the current call's frame accepted only part of it
    matchSkipped, \* the loop went on after a reply to `cur` had been decoded
    skipped,      \* frames the current call has skipped (counted up to MaxSkip)
    calls,        \* user calls of call_method made so far
    sigIn,        \* signature engine: the input string
    sigPc,        \* signature engine: "input", "parsed", "shown"
    sigVal,       \* signature engine: the result of parse
    sigOut,       \* signature engine: the result of to_string / to_string_no_parens
    sigCheck,     \* signature engine: the result of validate ("none" before it ran)
    val,          \* a Signature value, parsed or built with the constructors
    valPc,        \* what was last computed from val
    valLen,       \* the result of val.string_len()
    valStr,       \* the result of val.to_string()
    valAlign,     \* the result of val.alignment(format)
    cmpA,         \* comparison of two values: the left operand
    cmpB,         \* comparison of two values: the right operand
    cmpPc,        \* what was last computed from the pair
    cmpOrd,       \* the result of cmpA.cmp(&cmpB)
    cmpEq,        \* the result of cmpA == cmpB
    strSig,       \* comparison with a string: the Signature
    strOther,     \* comparison with a string: the string
    strPc,        \* "pair" before the comparison, "compared" after it
    strRes,       \* the result of strSig == strOther: "true", "false", "panic"
    opts,         \* unixexec: the options of the address
    exPc,         \* unixexec: "options", "parsed", "failed", "connected", "connect_err"
    exec,         \* unixexec: the result of UnixExec::from_options
    build,        \* unixexec: the runtime the crate is built for
    copy,         \* unixexec: the state of the two copies of the bridging task
    task,         \* unixexec: the bridging task: "none", "running", "ended"
    warned,       \* unixexec: the bridging task has logged a warning
    moved         \* unixexec: chunks the bridging task has copied (up to MaxChunks)

connVars == <<pc, caller, okLine, server_guid, serial, cur, written, inc, result,
              hdrShort, bodyShort, shortWrite, matchSkipped, skipped, calls>>
sigVars == <<sigIn, sigPc, sigVal, sigOut, sigCheck>>
valVars == <<val, valPc, valLen, valStr, valAlign>>
cmpVars == <<cmpA, cmpB, cmpPc, cmpOrd, cmpEq>>
strVars == <<strSig, strOther, strPc, strRes>>
execVars == <<opts, exPc, exec, build, copy, task, warned, moved>>
vars == <<connVars, sigVars, valVars, cmpVars, strVars, execVars>>

\* the variables an action of one component leaves alone
outsideConn == <<sigVars, valVars, cmpVars, strVars, execVars>>
outsideSig == <<connVars, valVars, cmpVars, strVars, execVars>>
outsideVal == <<connVars, sigVars, cmpVars, strVars, execVars>>
outsideCmp == <<connVars, sigVars, valVars, strVars, execVars>>
outsideStr == <<connVars, sigVars, valVars, cmpVars, execVars>>
outsideExec == <<connVars, sigVars, valVars, cmpVars, strVars>>

-----------------------------------------------------------------------------
(* Bounds of the model *)

\* user calls of call_method explored on one connection
MaxCalls == 2
\* longest handshake line (without its terminator) the peer sends
MaxLine == 5
\* largest bytes_to_completion a decoded primary header reports
MaxBody == 1
\* skipped frames of one call that are counted
MaxSkip == 1
\* longest signature string given to parse
MaxSigLen == 5
\* highest index i of an option argv<i> in a unixexec address
MaxArgv == 3
\* chunks the bridging task of a unixexec transport is seen to copy
MaxChunks == 2
\* longest string a Signature value is compared with
MaxOtherLen == 4
\* most nodes of a Signature value built with the constructors
MaxNodes == 3
\* how far from 2^32 - 1 the counter of a long-lived connection starts
NearWrap == 1

(* Program constants *)

\* Connection::serial is a u32, kept as two 16-bit limbs <<high, low>>
Limb == 65536
\* message::PRIMARY_HEADER_SIZE, the size of call_method's first buffer
PRIMARY_HEADER_SIZE == 16

-----------------------------------------------------------------------------
(* Values *)

U32Zero == <<0, 0>>
U32Max == <<Limb - 1, Limb - 1>>
NoSerial == <<-1, -1>>

\* a + 1 and a - 1 on 32 bits, wrapping
U32Succ(a) ==
    IF a[2] < Limb - 1 THEN <<a[1], a[2] + 1>>
    ELSE IF a[1] < Limb - 1 THEN <<a[1] + 1, 0>>
    ELSE U32Zero
U32Pred(a) ==
    IF a[2] > 0 THEN <<a[1], a[2] - 1>>
    ELSE IF a[1] > 0 THEN <<a[1] - 1, Limb - 1>>
    ELSE U32Max
U32Less(a, b) == a[1] < b[1] \/ (a[1] = b[1] /\ a[2] < b[2])

BoundedSeqs(A, n) == UNION {[1..k -> A] : k \in 0..n}

MsgTypes == {"MethodCall", "MethodReturn", "Error", "Signal"}

\* What the ErrorName field of a decoded frame can be: absent, present with a
\* value that fails to decode (f.value() is Err), present with a value that is
\* not a string (v.get::<&str>() is Err), or present with a name.
ErrorNames == {"absent", "badvalue", "nonstr", "UnknownMethod", "Failed"}

\* What body_signature() can return: None, "s", or another signature.
BodySigs == {"absent", "s", "u"}

\* What the body can be: a string, bytes body() cannot return (Err), or bytes
\* that do not decode as a string.
Bodies == {"d1", "d2", "nobody", "notstr"}

\* The frames add_bytes can complete from a header of type t, while the call
\* waits for serial n.  ReplySerial is absent, n, or another call's serial.  A
\* frame whose fields array does not decode shows no field; ErrorName is a
\* field of Error frames; a body is read only under signature "s".
FramesOf(t, n) ==
    {f \in [type : {t}, rs : {NoSerial, n, U32Pred(n)}, fieldsOk : BOOLEAN,
            en : ErrorNames, sig : BodySigs, body : Bodies] :
        /\ ~f.fieldsOk => (f.rs = NoSerial /\ f.en = "absent" /\ f.sig = "absent")
        /\ f.type # "Error" => f.en = "absent"
        /\ f.sig # "s" => f.body = "nobody"}

\* What a read into the 16-byte header buffer can return
HeaderReadCounts == {0, 1, PRIMARY_HEADER_SIZE - 1, PRIMARY_HEADER_SIZE}

NoFrame == [type |-> "None", rs |-> NoSerial, fieldsOk |-> FALSE, en |-> "absent",
            sig |-> "absent", body |-> "nobody"]

NoInc == [type |-> "None", btc |-> 0]

Res(kind, err, name, hasDetail, detail, via, frame) ==
    [kind |-> kind, err |-> err, name |-> name, hasDetail |-> hasDetail,
     detail |-> detail, via |-> via, frame |-> frame]

NoResult == Res("None", "", "", FALSE, "", "", NoFrame)
OkResult(f) == Res("Ok", "", "", FALSE, "", "reply", f)
Err(e, via) == Res("Err", e, "", FALSE, "", via, NoFrame)
\* an error made from the reply frame f (f is kept for reference)
ReplyErr(e, f) == Res("Err", e, "", FALSE, "", "reply", f)

\* One write on the socket: what was written, and the member and serial of a
\* METHOD_CALL frame.
Wr(kind, member, s) == [kind |-> kind, member |-> member, serial |-> s]

-----------------------------------------------------------------------------
(* new_session: the SASL line *)

Whitespace == {" ", "TAB", "CR", "LF"}

LineAlphabet == {"O", "K", " "}

\* read_line returns the bytes up to and including the first LF, or up to the
\* end of the stream.
LineEnds == {<<>>, <<"CR", "LF">>}

Lines == {c \o e : c \in BoundedSeqs(LineAlphabet, MaxLine), e \in LineEnds}

RECURSIVE SplitWs(_, _, _)
SplitWs(s, tok, acc) ==
    IF s = <<>>
    THEN IF tok = <<>> THEN acc ELSE Append(acc, tok)
    ELSE IF Head(s) \in Whitespace
         THEN SplitWs(Tail(s), <<>>, IF tok = <<>> THEN acc ELSE Append(acc, tok))
         ELSE SplitWs(Tail(s), Append(tok, Head(s)), acc)

\* str::split_whitespace: the maximal runs of non-whitespace characters
split_whitespace(s) == SplitWs(s, <<>>, <<>>)

\* bytes_read < 3 || components.next() != Some("OK")  =>  Handshake
OkLineRefused(line) ==
    LET components == split_whitespace(line)
    IN  Len(line) < 3 \/ components = <<>> \/ components[1] # <<"O", "K">>

\* GuidToken with the iterator not advanced past "OK"
GuidToken_First(line) ==
    LET components == split_whitespace(line)
    IN  IF Len(components) >= 2 THEN components[1] ELSE <<>>

\* components.next().ok_or(Handshake): the second token, <<>> when there is none
GuidToken(line) ==
    LET components == split_whitespace(line)
    IN  IF Len(components) >= 2 THEN components[2] ELSE <<>>

-----------------------------------------------------------------------------
(* call_method *)

\* next_serial that leaves the counter alone and hands out the next number
next_serial_Peek(s) == s

\* self.serial += 1 on a u32: wraps in a build without overflow checks
next_serial(s) == U32Succ(s)

\* the overflow check of a debug build aborts instead
OverflowPanics(s) == s = U32Max

\* FromMessage without the test of the body signature: the body is always read
FromMessage_NoSigCheck(f) ==
    IF f.type # "Error" THEN ReplyErr("InvalidReply", f)
    ELSE IF ~f.fieldsOk THEN ReplyErr("Message", f)
    ELSE IF f.en = "absent" THEN ReplyErr("InvalidReply", f)
    ELSE IF f.en = "badvalue" THEN ReplyErr("MessageField", f)
    ELSE IF f.en = "nonstr" THEN ReplyErr("Variant", f)
    ELSE IF f.body = "nobody" THEN ReplyErr("Message", f)
    ELSE IF f.body = "notstr" THEN ReplyErr("Variant", f)
    ELSE Res("Err", "MethodError", f.en, TRUE, f.body, "reply", f)

\* impl From<message::Message> for ConnectionError
FromMessage(f) ==
    IF f.type # "Error" THEN ReplyErr("InvalidReply", f)
    ELSE IF ~f.fieldsOk THEN ReplyErr("Message", f)
    ELSE IF f.en = "absent" THEN ReplyErr("InvalidReply", f)
    ELSE IF f.en = "badvalue" THEN ReplyErr("MessageField", f)
    ELSE IF f.en = "nonstr" THEN ReplyErr("Variant", f)
    ELSE IF f.sig = "s"
         THEN IF f.body = "nobody" THEN ReplyErr("Message", f)
              ELSE IF f.body = "notstr" THEN ReplyErr("Variant", f)
              ELSE Res("Err", "MethodError", f.en, TRUE, f.body, "reply", f)
         ELSE Res("Err", "MethodError", f.en, FALSE, "", "reply", f)

\* Dispatch without the comparison of ReplySerial with the call's serial
Dispatch_AnySerial(f, n) ==
    IF f.type \in {"MethodReturn", "Error"}
    THEN IF ~f.fieldsOk THEN "fields"
         ELSE (IF f.type = "Error" THEN "err" ELSE "ok")
    ELSE "loop"

\* Dispatch with no arm for a frame that answers the call's serial
Dispatch_NeverMatches(f, n) ==
    IF f.type \in {"MethodReturn", "Error"} /\ ~f.fieldsOk THEN "fields" ELSE "loop"

\* The tail of one loop iteration, on the completed frame: "fields" when
\* incoming.fields() fails, "err" / "ok" when the frame answers serial n,
\* "loop" when the loop goes on.
Dispatch(f, n) ==
    IF f.type \in {"MethodReturn", "Error"}
    THEN IF ~f.fieldsOk THEN "fields"
         ELSE IF f.rs = n
              THEN (IF f.type = "Error" THEN "err" ELSE "ok")
              ELSE "loop"
    ELSE "loop"

\* the zero check left out
BytesLeftIsZero_Never(bytes_left) == FALSE

\* if bytes_left == 0 { return Err(ConnectionError::Handshake) }
BytesLeftIsZero(bytes_left) == bytes_left = 0

\* a reply to serial n, said of the frame alone
IsReplyTo(f, n) == f.type \in {"MethodReturn", "Error"} /\ f.fieldsOk /\ f.rs = n

-----------------------------------------------------------------------------
(* Signature engine: values, parse, canonical string form *)

\* A Signature value: the variant's name and its children in order (none for a
\* basic type, the child of Array and Maybe, key and value of Dict, the fields
\* of Structure).
Sig(tag, kids) == [tag |-> tag, kids |-> kids]
Unit == Sig("Unit", <<>>)

\* the gvariant feature (Signature::Maybe, 'm') is compiled in
FeatureGvariant == TRUE

\* simple_type: the one-byte signatures and their variants
BasicChars == {"y", "b", "n", "q", "i", "u", "x", "t", "d", "s", "g", "o", "v", "h"}
BasicTag(c) ==
    CASE c = "y" -> "U8"   [] c = "b" -> "Bool" [] c = "n" -> "I16"
      [] c = "q" -> "U16"  [] c = "i" -> "I32"  [] c = "u" -> "U32"
      [] c = "x" -> "I64"  [] c = "t" -> "U64"  [] c = "d" -> "F64"
      [] c = "s" -> "Str"  [] c = "g" -> "Signature"
      [] c = "o" -> "ObjectPath" [] c = "v" -> "Variant" [] c = "h" -> "Fd"
BasicChar(tag) == CHOOSE c \in BasicChars : BasicTag(c) = tag

\* a nom result: Ok((rest, sig)) or Err
POk(sig, rest) == [ok |-> TRUE, sig |-> sig, rest |-> rest]
PErr == [ok |-> FALSE, sig |-> Unit, rest |-> <<>>]

\* byte(b): the tag of one byte
StartsWith(bytes, c) == bytes # <<>> /\ Head(bytes) = c

RECURSIVE parse_signature(_, _), many(_, _, _), Many1Acc(_, _, _)

\* many1(parser) after its first element: apply the parser until it fails
Many1Acc(bytes, check_only, acc) ==
    LET r == parse_signature(bytes, check_only)
    IN  IF r.ok THEN Many1Acc(r.rest, check_only, Append(acc, r.sig))
        ELSE [sigs |-> acc, rest |-> bytes]

many(bytes, check_only, top_level) ==
    LET first == parse_signature(bytes, check_only)
    IN  IF ~first.ok THEN PErr
        ELSE LET all == Many1Acc(first.rest, check_only, <<first.sig>>)
             IN  IF check_only THEN POk(Unit, all.rest)
                 ELSE IF top_level /\ Len(all.sigs) = 1
                      THEN POk(all.sigs[1], all.rest)
                      ELSE POk(Sig("Structure", all.sigs), all.rest)

\* alt((simple_type, dict, array, structure, maybe)): the first that succeeds
parse_signature(bytes, check_only) ==
    LET dict ==
            IF StartsWith(bytes, "a") /\ StartsWith(Tail(bytes), "{")
            THEN LET key == parse_signature(Tail(Tail(bytes)), check_only)
                 IN  IF ~key.ok THEN PErr
                     ELSE LET value == parse_signature(key.rest, check_only)
                          IN  IF value.ok /\ StartsWith(value.rest, "}")
                              THEN POk(IF check_only THEN Sig("Dict", <<Unit, Unit>>)
                                       ELSE Sig("Dict", <<key.sig, value.sig>>),
                                       Tail(value.rest))
                              ELSE PErr
            ELSE PErr
        array ==
            IF StartsWith(bytes, "a")
            THEN LET child == parse_signature(Tail(bytes), check_only)
                 IN  IF child.ok
                     THEN POk(IF check_only THEN Sig("Array", <<Unit>>)
                              ELSE Sig("Array", <<child.sig>>), child.rest)
                     ELSE PErr
            ELSE PErr
        structure ==
            IF StartsWith(bytes, "(")
            THEN LET fields == many(Tail(bytes), check_only, FALSE)
                 IN  IF fields.ok /\ StartsWith(fields.rest, ")")
                     THEN POk(fields.sig, Tail(fields.rest))
                     ELSE PErr
            ELSE PErr
        maybe ==
            IF FeatureGvariant /\ StartsWith(bytes, "m")
            THEN LET child == parse_signature(Tail(bytes), check_only)
                 IN  IF child.ok
                     THEN POk(IF check_only THEN Sig("Maybe", <<Unit>>)
                              ELSE Sig("Maybe", <<child.sig>>), child.rest)
                     ELSE PErr
            ELSE PErr
    IN  IF bytes # <<>> /\ Head(bytes) \in BasicChars
        THEN POk(Sig(BasicTag(Head(bytes)), <<>>), Tail(bytes))
        ELSE IF dict.ok THEN dict
        ELSE IF array.ok THEN array
        ELSE IF structure.ok THEN structure
        ELSE maybe

\* parse: all_consuming(alt((empty, many top-level))); ok = FALSE is
\* Error::InvalidSignature
parse(bytes, check_only) ==
    IF bytes = <<>> THEN [ok |-> TRUE, sig |-> Unit]
    ELSE LET r == many(bytes, check_only, TRUE)
         IN  IF r.ok /\ r.rest = <<>> THEN [ok |-> TRUE, sig |-> r.sig]
             ELSE [ok |-> FALSE, sig |-> Unit]

NoParse == [ok |-> FALSE, sig |-> Unit]

RECURSIVE write_as_string(_, _), WriteAll(_)

\* for field in fields.iter() { write!(w, "{}", field) }
WriteAll(fields) ==
    IF fields = <<>> THEN <<>>
    ELSE write_as_string(Head(fields), TRUE) \o WriteAll(Tail(fields))

\* Signature::write_as_string; "{}" of a child is Display, with parentheses
write_as_string(sig, outer_parens) ==
    CASE sig.tag = "Unit" -> <<>>
      [] sig.tag = "Array" -> <<"a">> \o write_as_string(sig.kids[1], TRUE)
      [] sig.tag = "Dict" ->
            <<"a", "{">> \o write_as_string(sig.kids[1], TRUE)
                         \o write_as_string(sig.kids[2], TRUE) \o <<"}">>
      [] sig.tag = "Structure" ->
            IF outer_parens THEN <<"(">> \o WriteAll(sig.kids) \o <<")">>
            ELSE WriteAll(sig.kids)
      [] sig.tag = "Maybe" -> <<"m">> \o write_as_string(sig.kids[1], TRUE)
      [] OTHER -> <<BasicChar(sig.tag)>>

\* Display passing outer_parens = false
to_string_NoOuter(sig) == write_as_string(sig, FALSE)

\* impl Display for Signature
to_string(sig) == write_as_string(sig, TRUE)

\* to_string_no_parens with the outer parentheses kept
to_string_no_parens_Outer(sig) == write_as_string(sig, TRUE)

\* Signature::to_string_no_parens
to_string_no_parens(sig) == write_as_string(sig, FALSE)

\* validate with a single type in place of many1_count
validate_OneType(bytes) ==
    LET r == parse_signature(bytes, TRUE) IN bytes = <<>> \/ (r.ok /\ r.rest = <<>>)

\* validate(bytes): parse(bytes, true).map(|_| ()); TRUE is Ok(())
validate(bytes) == parse(bytes, TRUE).ok

SigIdle ==
    /\ sigIn = <<>> /\ sigPc = "idle" /\ sigVal = NoParse /\ sigOut = <<>>
    /\ sigCheck = "none"

\* the result of a call that panicked instead of returning an alignment
Panicked == 0

RECURSIVE string_len(_), SumLen(_)

\* for field in fields.iter() { len += field.string_len() }
SumLen(fields) ==
    IF fields = <<>> THEN 0 ELSE string_len(Head(fields)) + SumLen(Tail(fields))

\* string_len with the braces of a Dict counted as one character
string_len_DictBrace(sig) ==
    CASE sig.tag = "Unit" -> 0
      [] sig.tag \in {"Array", "Maybe"} -> 1 + string_len(sig.kids[1])
      [] sig.tag = "Dict" -> 2 + string_len(sig.kids[1]) + string_len(sig.kids[2])
      [] sig.tag = "Structure" -> 2 + SumLen(sig.kids)
      [] OTHER -> 1

\* Signature::string_len
string_len(sig) ==
    CASE sig.tag = "Unit" -> 0
      [] sig.tag = "Array" -> 1 + string_len(sig.kids[1])
      [] sig.tag = "Dict" -> 3 + string_len(sig.kids[1]) + string_len(sig.kids[2])
      [] sig.tag = "Structure" -> 2 + SumLen(sig.kids)
      [] sig.tag = "Maybe" -> 1 + string_len(sig.kids[1])
      [] OTHER -> 1

\* alignment_dbus with a Structure aligned as an Array
alignment_dbus_StructAsArray(sig) ==
    CASE sig.tag \in {"U8", "Variant", "Signature"} -> 1
      [] sig.tag \in {"I16", "U16"} -> 2
      [] sig.tag \in {"I64", "U64", "F64", "Unit"} -> 8
      [] sig.tag = "Maybe" -> Panicked
      [] OTHER -> 4

\* Signature::alignment_dbus; Maybe is unreachable!(), a panic
alignment_dbus(sig) ==
    CASE sig.tag \in {"U8", "Variant", "Signature"} -> 1
      [] sig.tag \in {"I16", "U16"} -> 2
      [] sig.tag \in {"I32", "U32", "Bool", "Str", "ObjectPath", "Array", "Dict"} -> 4
      [] sig.tag \in {"I64", "U64", "F64", "Unit", "Structure"} -> 8
      [] sig.tag = "Fd" -> 4
      [] sig.tag = "Maybe" -> Panicked

\* std::cmp::max
max(a, b) == IF a >= b THEN a ELSE b

RECURSIVE alignment_gvariant(_), MaxAlign(_)

\* fields.iter().map(alignment_gvariant).max().unwrap_or(1)
MaxAlign(fields) ==
    IF fields = <<>> THEN 1
    ELSE IF Len(fields) = 1 THEN alignment_gvariant(fields[1])
    ELSE max(alignment_gvariant(Head(fields)), MaxAlign(Tail(fields)))

\* alignment_gvariant with a Dict aligned as its value alone
alignment_gvariant_DictValue(sig) ==
    CASE sig.tag \in {"Str", "ObjectPath"} -> 1
      [] sig.tag = "Variant" -> 8
      [] sig.tag \in {"Array", "Maybe"} -> alignment_gvariant(sig.kids[1])
      [] sig.tag = "Dict" -> alignment_gvariant(sig.kids[2])
      [] sig.tag = "Structure" -> MaxAlign(sig.kids)
      [] OTHER -> alignment_dbus(sig)

\* Signature::alignment_gvariant
alignment_gvariant(sig) ==
    CASE sig.tag \in {"Str", "ObjectPath"} -> 1
      [] sig.tag = "Variant" -> 8
      [] sig.tag \in {"Array", "Maybe"} -> alignment_gvariant(sig.kids[1])
      [] sig.tag = "Dict" ->
            max(alignment_gvariant(sig.kids[1]), alignment_gvariant(sig.kids[2]))
      [] sig.tag = "Structure" -> MaxAlign(sig.kids)
      [] OTHER -> alignment_dbus(sig)

\* Format, with GVariant under the gvariant feature
Formats == {"DBus"} \cup (IF FeatureGvariant THEN {"GVariant"} ELSE {})

\* Signature::alignment
alignment(sig, format) ==
    IF format = "DBus" THEN alignment_dbus(sig) ELSE alignment_gvariant(sig)

ValIdle ==
    /\ val = Unit /\ valPc = "idle" /\ valLen = 0 /\ valStr = <<>> /\ valAlign = 0

RECURSIVE eq(_, _), EqAll(_, _)

\* a.iter().eq(b.iter())
EqAll(a, b) ==
    IF a = <<>> \/ b = <<>> THEN a = <<>> /\ b = <<>>
    ELSE eq(Head(a), Head(b)) /\ EqAll(Tail(a), Tail(b))

\* impl PartialEq for Signature
eq(a, b) ==
    IF a.tag # b.tag THEN FALSE
    ELSE CASE a.tag \in {"Array", "Maybe"} -> eq(a.kids[1], b.kids[1])
           [] a.tag = "Dict" -> eq(a.kids[1], b.kids[1]) /\ eq(a.kids[2], b.kids[2])
           [] a.tag = "Structure" -> EqAll(a.kids, b.kids)
           [] OTHER -> TRUE

RECURSIVE cmp(_, _), CmpAll(_, _)

\* a.iter().cmp(b.iter()): the first elements that differ decide, and a
\* proper prefix is Less
CmpAll(a, b) ==
    IF a = <<>> THEN (IF b = <<>> THEN "Equal" ELSE "Less")
    ELSE IF b = <<>> THEN "Greater"
    ELSE LET c == cmp(Head(a), Head(b))
         IN  IF c = "Equal" THEN CmpAll(Tail(a), Tail(b)) ELSE c

\* impl Ord for Signature; two different variants are the (_, _) arm
cmp(a, b) ==
    IF a.tag # b.tag THEN "Equal"
    ELSE CASE a.tag \in {"Array", "Maybe"} -> cmp(a.kids[1], b.kids[1])
           [] a.tag = "Dict" ->
                 LET k == cmp(a.kids[1], b.kids[1])
                 IN  IF k = "Equal" THEN cmp(a.kids[2], b.kids[2]) ELSE k
           [] a.tag = "Structure" -> CmpAll(a.kids, b.kids)
           [] OTHER -> "Equal"

RECURSIVE eq_str(_, _), EqFields(_, _, _)

\* The loop of the Structure arm from byte offset `start` of fields_str on.
\* &fields_str[start..end] panics when end is past the end of the string.
EqFields(fields, fields_str, start) ==
    IF fields = <<>> THEN "true"
    ELSE LET len == string_len(Head(fields))
             end == start + len
         IN  IF end > Len(fields_str) THEN "panic"
             ELSE LET r == eq_str(Head(fields), SubSeq(fields_str, start + 1, end))
                  IN  IF r = "true" THEN EqFields(Tail(fields), fields_str, end)
                      ELSE r

\* impl PartialEq<&str> for Signature: "true", "false", or "panic" when a
\* slice is out of range
eq_str(sig, other) ==
    CASE sig.tag = "Unit" -> IF other = <<>> THEN "true" ELSE "false"
      [] sig.tag = "Array" ->
            IF Len(other) < 2 \/ ~StartsWith(other, "a") THEN "false"
            ELSE eq_str(sig.kids[1], Tail(other))
      [] sig.tag = "Dict" ->
            IF \/ Len(other) < 4
               \/ ~(other[1] = "a" /\ other[2] = "{")
               \/ other[Len(other)] # "}"
            THEN "false"
            ELSE LET inner == SubSeq(other, 3, Len(other) - 1)
                     key_str == SubSeq(inner, 1, 1)
                     value_str == SubSeq(inner, 2, Len(inner))
                     k == eq_str(sig.kids[1], key_str)
                 IN  IF k = "true" THEN eq_str(sig.kids[2], value_str) ELSE k
      [] sig.tag = "Structure" ->
            LET len == string_len(sig)
            IN  IF len < Len(other) THEN "false"
                ELSE IF len = Len(other)
                     THEN (IF Len(other) < 3 THEN "false"
                           ELSE EqFields(sig.kids, SubSeq(other, 2, Len(other) - 1), 0))
                     ELSE (IF other = <<>> THEN "false"
                           ELSE EqFields(sig.kids, other, 0))
      [] sig.tag = "Maybe" ->
            IF Len(other) < 2 \/ ~StartsWith(other, "m") THEN "false"
            ELSE eq_str(sig.kids[1], Tail(other))
      [] OTHER -> IF other = <<BasicChar(sig.tag)>> THEN "true" ELSE "false"

StrIdle ==
    /\ strSig = Unit /\ strOther = <<>> /\ strPc = "idle" /\ strRes = "false"

CmpIdle ==
    /\ cmpA = Unit /\ cmpB = Unit /\ cmpPc = "idle" /\ cmpOrd = "Equal"
    /\ cmpEq = FALSE

-----------------------------------------------------------------------------
(* The unixexec transport *)

\* format!("argv{arg_index}")
ArgKey(i) == "argv" \o ToString(i)

\* Option<OsString> as a sequence of at most one element
None == <<>>
Some(x) == <<x>>

\* UnixExec::new, and the Err of from_options
UnixExecNew(path, arg0, args) ==
    [ok |-> TRUE, err |-> "", path |-> path, arg0 |-> arg0, args |-> args]
ExecErr(e) == [ok |-> FALSE, err |-> e, path |-> "", arg0 |-> None, args |-> <<>>]
NoExec == ExecErr("")

RECURSIVE CollectArgs(_, _, _), CollectPresent(_, _, _)

\* every argv<i> that is present from arg_index to argv<last>, gaps skipped
CollectPresent(o, arg_index, last) ==
    IF arg_index > last THEN <<>>
    ELSE (IF ArgKey(arg_index) \in DOMAIN o THEN <<o[ArgKey(arg_index)]>> ELSE <<>>)
         \o CollectPresent(o, arg_index + 1, last)

\* from_options taking every argv<i> that is present
from_options_SkipGaps(o) ==
    IF "path" \notin DOMAIN o THEN ExecErr("Address")
    ELSE UnixExecNew(o["path"],
                     IF "argv0" \in DOMAIN o THEN Some(o["argv0"]) ELSE None,
                     CollectPresent(o, 1, MaxArgv))

\* while let Some(arg) = opts.get(format!("argv{arg_index}")) { args.push(arg) }
CollectArgs(o, arg_index, args) ==
    IF ArgKey(arg_index) \in DOMAIN o
    THEN CollectArgs(o, arg_index + 1, Append(args, o[ArgKey(arg_index)]))
    ELSE args

\* UnixExec::from_options
from_options(o) ==
    IF "path" \notin DOMAIN o THEN ExecErr("Address")
    ELSE UnixExecNew(o["path"],
                     IF "argv0" \in DOMAIN o THEN Some(o["argv0"]) ELSE None,
                     CollectArgs(o, 1, <<>>))

\* the two copies of the bridging task: from the local socket pair to the
\* child's stdin, and from the child's stdout to the local socket pair
Directions == {"to_child", "from_child"}

\* the `tokio` feature, or the async-io default
Builds == {"tokio", "async-io"}

\* join(copy, copy) and copy_bidirectional are done when neither direction
\* is still copying
BothFinished(c) == \A d \in Directions : c[d] # "copying"

NoCopy == [d \in Directions |-> "none"]

ExecIdle ==
    /\ opts = <<>> /\ exPc = "idle" /\ exec = NoExec /\ build = "none"
    /\ copy = NoCopy /\ task = "none" /\ warned = FALSE /\ moved = 0

-----------------------------------------------------------------------------
(* The connection as a state machine *)

\* A process that is about to call Connection::new_session.
Fresh ==
    /\ pc = "start" /\ caller = "none" /\ okLine = <<>> /\ server_guid = <<>>
    /\ serial = U32Zero /\ cur = U32Zero /\ written = <<>> /\ inc = NoInc
    /\ result = NoResult
    /\ hdrShort = FALSE /\ bodyShort = FALSE /\ shortWrite = FALSE
    /\ matchSkipped = FALSE
    /\ skipped = 0 /\ calls = 0

\* A connection that has been in use for a long time: its counter is NearWrap
\* calls away from the largest u32.  `written` records the writes from here on.
Aged ==
    /\ pc = "ready" /\ caller = "none" /\ okLine = <<>> /\ server_guid = <<"K">>
    /\ serial = <<Limb - 1, Limb - 1 - NearWrap>> /\ cur = U32Zero /\ written = <<>> /\ inc = NoInc
    /\ result = NoResult /\ hdrShort = FALSE /\ bodyShort = FALSE
    /\ shortWrite = FALSE /\ matchSkipped = FALSE /\ skipped = 0 /\ calls = 0

Init == (Fresh \/ Aged) /\ SigIdle /\ ValIdle /\ CmpIdle /\ StrIdle /\ ExecIdle

\* new_session fails: no Connection is returned
Fail(e, via) ==
    /\ pc' = "failed"
    /\ result' = Err(e, via)

\* UnixStream::connect, then the write of "\0AUTH EXTERNAL <hex>\r\n"
SendAuth ==
    /\ pc = "start"
    /\ \E out \in {"connect_err", "write_err", "sent"} :
         IF out = "sent"
         THEN /\ written' = Append(written, Wr("auth", "", U32Zero))
              /\ pc' = "await_ok"
              /\ UNCHANGED result
         ELSE /\ Fail("IO", "io")
              /\ UNCHANGED written
    /\ UNCHANGED <<caller, okLine, server_guid, serial, cur, inc, hdrShort,
                   bodyShort, shortWrite, matchSkipped, skipped, calls, outsideConn>>

\* read_line, split_whitespace, the OK check and the GUID token
ReadOkLine ==
    /\ pc = "await_ok"
    /\ \E ioOk \in BOOLEAN, line \in Lines :
         IF ~ioOk
         THEN Fail("IO", "read_line") /\ UNCHANGED <<okLine, server_guid>>
         ELSE /\ okLine' = line
              /\ IF OkLineRefused(line) \/ GuidToken(line) = <<>>
                 THEN Fail("Handshake", "line") /\ UNCHANGED server_guid
                 ELSE /\ server_guid' = GuidToken(line)
                      /\ pc' = "send_begin"
                      /\ UNCHANGED result
    /\ UNCHANGED <<caller, serial, cur, written, inc, hdrShort, bodyShort, shortWrite,
                   matchSkipped, skipped, calls, outsideConn>>

\* the write of "BEGIN\r\n", then Self { socket, server_guid, serial: 0 }
SendBegin ==
    /\ pc = "send_begin"
    /\ \E ioOk \in BOOLEAN :
         IF ioOk
         THEN /\ written' = Append(written, Wr("begin", "", U32Zero))
              /\ serial' = U32Zero
              /\ pc' = "hello"
              /\ UNCHANGED result
         ELSE Fail("IO", "io") /\ UNCHANGED <<written, serial>>
    /\ UNCHANGED <<caller, okLine, server_guid, cur, inc, hdrShort, bodyShort,
                   shortWrite, matchSkipped, skipped, calls, outsideConn>>

\* call_method returns res to its caller: new_session propagates an error with
\* `?`, a user keeps the connection whatever the call returned.
EndCall(who, res) ==
    /\ result' = res
    /\ pc' = IF who = "hello"
             THEN (IF res.kind = "Ok" THEN "hello_reply" ELSE "failed")
             ELSE "ready"

\* call_method up to its loop: next_serial, Message::method, set_serial, write.
\* The Hello call of new_session is built from constants; a user's call may
\* fail to build.  write may accept only part of the frame (full = FALSE); the
\* count it returns is not looked at.
CallBegin(who) ==
    /\ \/ who = "hello" /\ pc = "hello"
       \/ who = "user" /\ pc = "ready" /\ calls < MaxCalls
    /\ caller' = who
    /\ calls' = IF who = "user" THEN calls + 1 ELSE calls
    /\ inc' = NoInc /\ hdrShort' = FALSE /\ bodyShort' = FALSE
    /\ matchSkipped' = FALSE /\ skipped' = 0
    /\ okLine' = IF who = "user" THEN <<>> ELSE okLine
    /\ \E out \in {"panic", "build_err", "write_err", "sent"}, full \in BOOLEAN :
         /\ out = "panic" => OverflowPanics(serial)
         /\ out = "build_err" => who = "user"
         /\ IF out = "panic"
            THEN /\ pc' = "panicked"
                 /\ result' = Err("panic", "panic")
                 /\ shortWrite' = FALSE
                 /\ UNCHANGED <<serial, cur, written>>
            ELSE /\ serial' = next_serial(serial)
                 /\ cur' = serial'
                 /\ IF out = "sent"
                    THEN /\ written' = Append(written,
                                 Wr("msg", IF who = "hello" THEN "Hello" ELSE "user", cur'))
                         /\ shortWrite' = ~full
                         /\ pc' = "hdr"
                         /\ result' = NoResult
                    ELSE /\ EndCall(who, Err(IF out = "build_err" THEN "Message" ELSE "IO",
                                             IF out = "build_err" THEN "build" ELSE "io"))
                         /\ shortWrite' = FALSE
                         /\ UNCHANGED written
    /\ UNCHANGED <<server_guid, outsideConn>>

\* One iteration, first half: read into the header buffer (an I/O error ends
\* the call), from_bytes (which may fail), bytes_to_completion and the zero
\* check.  n is what read returned; the buffer keeps its zeros past n and is
\* decoded whole.
ReadHeader ==
    /\ pc = "hdr"
    /\ \/ /\ EndCall(caller, Err("IO", "io"))
          /\ UNCHANGED <<inc, hdrShort>>
       \/ \E n \in HeaderReadCounts :
             /\ hdrShort' = (n < PRIMARY_HEADER_SIZE)
             /\ \/ EndCall(caller, Err("Message", "codec")) /\ UNCHANGED inc
                \/ \E t \in MsgTypes, b \in 0..MaxBody :
                      /\ inc' = [type |-> t, btc |-> b]
                      /\ IF BytesLeftIsZero(b)
                         THEN EndCall(caller, Err("Handshake", "zero"))
                         ELSE pc' = "body" /\ UNCHANGED result
    /\ bodyShort' = FALSE
    /\ UNCHANGED <<caller, okLine, server_guid, serial, cur, written, shortWrite,
                   matchSkipped, skipped, calls, outsideConn>>

\* One iteration, second half: read bytes_to_completion bytes (an I/O error
\* ends the call), add_bytes of the n bytes read (which may fail), then the
\* match on the frame.
ReadBody ==
    /\ pc = "body"
    /\ \/ /\ EndCall(caller, Err("IO", "io"))
          /\ UNCHANGED <<bodyShort, matchSkipped, skipped>>
       \/ \E n \in 0..inc.btc :
             /\ bodyShort' = (n < inc.btc)
             /\ \/ /\ EndCall(caller, Err("Message", "codec"))
                   /\ UNCHANGED <<matchSkipped, skipped>>
                \/ \E f \in FramesOf(inc.type, cur) :
                      LET d == Dispatch(f, cur)
                      IN  CASE d = "fields" ->
                                 /\ EndCall(caller, Err("Message", "codec"))
                                 /\ UNCHANGED <<matchSkipped, skipped>>
                            [] d = "err" ->
                                 /\ EndCall(caller, FromMessage(f))
                                 /\ UNCHANGED <<matchSkipped, skipped>>
                            [] d = "ok" ->
                                 /\ EndCall(caller, OkResult(f))
                                 /\ UNCHANGED <<matchSkipped, skipped>>
                            [] OTHER ->
                                 /\ pc' = "hdr"
                                 /\ matchSkipped' = (matchSkipped \/ IsReplyTo(f, cur))
                                 /\ skipped' = IF skipped < MaxSkip THEN skipped + 1
                                                ELSE skipped
                                 /\ UNCHANGED result
    /\ inc' = NoInc
    /\ UNCHANGED <<caller, okLine, server_guid, serial, cur, written, hdrShort,
                   shortWrite, calls, outsideConn>>

\* new_session after the Hello call returned Ok(reply): the body must be a string
CheckHelloReply ==
    /\ pc = "hello_reply"
    /\ LET reply == result.frame
       IN  IF reply.sig = "s"
           THEN IF reply.body = "nobody" THEN Fail("Message", "hello")
                ELSE IF reply.body = "notstr" THEN Fail("Variant", "hello")
                ELSE pc' = "ready" /\ UNCHANGED result
           ELSE Fail("InvalidReply", "hello")
    /\ UNCHANGED <<caller, okLine, server_guid, serial, cur, written, inc, hdrShort,
                   bodyShort, shortWrite, matchSkipped, skipped, calls, outsideConn>>

ConnIdle == Fresh

-----------------------------------------------------------------------------
(* The signature engine as a state machine: an input string is parsed, and  *)
(* the parsed value is then written back as a string.                       *)

SigAlphabet ==
    {"i", "s", "a", "{", "}", "(", ")"} \cup (IF FeatureGvariant THEN {"m"} ELSE {})

SigInputs == BoundedSeqs(SigAlphabet, MaxSigLen)

InitSig ==
    /\ ConnIdle /\ ValIdle /\ CmpIdle /\ StrIdle /\ ExecIdle
    /\ sigIn \in SigInputs /\ sigPc = "input" /\ sigVal = NoParse /\ sigOut = <<>>
    /\ sigCheck = "none"

\* Signature::from_str / from_bytes
Parse ==
    /\ sigPc = "input"
    /\ sigVal' = parse(sigIn, FALSE)
    /\ sigPc' = "parsed"
    /\ UNCHANGED <<sigIn, sigOut, sigCheck, outsideSig>>

\* to_string on the parsed value
Display ==
    /\ sigPc = "parsed" /\ sigVal.ok
    /\ sigOut' = to_string(sigVal.sig)
    /\ sigPc' = "shown"
    /\ UNCHANGED <<sigIn, sigVal, sigCheck, outsideSig>>

\* to_string_no_parens on the parsed value
DisplayNoParens ==
    /\ sigPc = "parsed" /\ sigVal.ok
    /\ sigOut' = to_string_no_parens(sigVal.sig)
    /\ sigPc' = "shown_np"
    /\ UNCHANGED <<sigIn, sigVal, sigCheck, outsideSig>>

\* validate on the string that was parsed
Validate ==
    /\ sigPc = "parsed"
    /\ sigCheck' = IF validate(sigIn) THEN "ok" ELSE "err"
    /\ sigPc' = "validated"
    /\ UNCHANGED <<sigIn, sigVal, sigOut, outsideSig>>

NextSig == Parse \/ Display \/ DisplayNoParens \/ Validate

SpecSig == InitSig /\ [][NextSig]_vars

-----------------------------------------------------------------------------
(* Signature values as a state machine: a value that was parsed or built    *)
(* with the constructors is measured, written as a string, and asked for    *)
(* its alignment.                                                           *)

\* the variants without children
Leaves == {Unit} \cup {Sig(BasicTag(c), <<>>) : c \in BasicChars}

\* the one element of a set of one element
TheOne(S) == CHOOSE e \in S : TRUE

\* The values of exactly n nodes (vals) and, below the last entry, the field
\* lists of n nodes in all (seqs) that Signature::array, ::dict, ::structure
\* and ::maybe build from the given variants without children; tbl holds
\* these for 1 .. n - 1 nodes.
BuiltEntry(leaves, tbl, last) ==
    LET n == Len(tbl) + 1
        Vals(i) == IF i = 0 THEN {} ELSE tbl[i].vals
        Seqs(i) == IF i = 0 THEN {<<>>} ELSE tbl[i].seqs
        vals ==
            (IF n = 1 THEN leaves ELSE {})
            \cup {Sig("Array", <<c>>) : c \in Vals(n - 1)}
            \cup (IF FeatureGvariant
                  THEN {Sig("Maybe", <<c>>) : c \in Vals(n - 1)}
                  ELSE {})
            \cup UNION {{Sig("Dict", <<k, v>>) : k \in Vals(i), v \in Vals(n - 1 - i)} :
                        i \in 1..(n - 2)}
            \cup {Sig("Structure", f) : f \in Seqs(n - 1)}
        longer ==
            UNION {{<<v>> \o rest : v \in Vals(i), rest \in Seqs(n - i)} :
                   i \in 1..(n - 1)}
    IN  TheOne({[vals |-> vs,
                 seqs |-> IF n = last THEN {} ELSE {<<v>> : v \in vs} \cup longer] :
                    vs \in {vals}})

\* the table of the entries for 1 .. last nodes, built on tbl
RECURSIVE BuiltTable(_, _, _)
BuiltTable(leaves, tbl, last) ==
    IF Len(tbl) >= last THEN tbl
    ELSE TheOne({BuiltTable(leaves, Append(tbl, e), last) :
                    e \in {BuiltEntry(leaves, tbl, last)}})

\* the values of at most MaxNodes nodes
BuiltFrom(leaves) ==
    TheOne({UNION {tbl[n].vals : n \in 1..MaxNodes} :
               tbl \in {BuiltTable(leaves, <<>>, MaxNodes)}})

\* the variants without children that the children of a built value are
\* taken from: one of each alignment in either format, and Unit
ChildLeaves ==
    {Unit} \cup {Sig(t, <<>>) : t \in {"U8", "I16", "I32", "I64", "Str", "Variant"}}

\* every variant without children, and the values built over ChildLeaves
BuiltValues == Leaves \cup BuiltFrom(ChildLeaves)

\* the values that parsing a string gives
ParsedValues == {r.sig : r \in {q \in {parse(t, FALSE) : t \in SigInputs} : q.ok}}

InitVal ==
    /\ ConnIdle /\ SigIdle /\ CmpIdle /\ StrIdle /\ ExecIdle
    /\ val \in BuiltValues \cup ParsedValues
    /\ valPc = "built" /\ valLen = 0 /\ valStr = <<>> /\ valAlign = 0

\* val.string_len()
StringLen ==
    /\ valPc = "built"
    /\ valLen' = string_len(val)
    /\ valPc' = "measured"
    /\ UNCHANGED <<val, valStr, valAlign, outsideVal>>

\* val.to_string()
DisplayVal ==
    /\ valPc = "measured"
    /\ valStr' = to_string(val)
    /\ valPc' = "shown"
    /\ UNCHANGED <<val, valLen, valAlign, outsideVal>>

\* val.alignment(format)
Alignment(format) ==
    /\ valPc = "built"
    /\ valAlign' = alignment(val, format)
    /\ valPc' = format
    /\ UNCHANGED <<val, valLen, valStr, outsideVal>>

NextVal == StringLen \/ DisplayVal \/ (\E format \in Formats : Alignment(format))

SpecVal == InitVal /\ [][NextVal]_vars

-----------------------------------------------------------------------------
(* Two Signature values are compared with cmp and with ==.                  *)

\* the variants without children that the compared values are built from
PairLeaves == {Unit, Sig("I32", <<>>), Sig("Str", <<>>)}

PairValues == BuiltFrom(PairLeaves)

InitCmp ==
    /\ ConnIdle /\ SigIdle /\ ValIdle /\ StrIdle /\ ExecIdle
    /\ cmpA \in PairValues /\ cmpB \in PairValues
    /\ cmpPc = "pair" /\ cmpOrd = "Equal" /\ cmpEq = FALSE

\* cmpA.cmp(&cmpB)
Compare ==
    /\ cmpPc = "pair"
    /\ cmpOrd' = cmp(cmpA, cmpB)
    /\ cmpPc' = "ordered"
    /\ UNCHANGED <<cmpA, cmpB, cmpEq, outsideCmp>>

\* cmpA == cmpB
Equals ==
    /\ cmpPc = "ordered"
    /\ cmpEq' = eq(cmpA, cmpB)
    /\ cmpPc' = "compared"
    /\ UNCHANGED <<cmpA, cmpB, cmpOrd, outsideCmp>>

NextCmp == Compare \/ Equals

SpecCmp == InitCmp /\ [][NextCmp]_vars

-----------------------------------------------------------------------------
(* A Signature value is compared with a string.                             *)

StrInputs == BoundedSeqs(SigAlphabet, MaxOtherLen)

InitStr ==
    /\ ConnIdle /\ SigIdle /\ ValIdle /\ CmpIdle /\ ExecIdle
    /\ strSig \in PairValues /\ strOther \in StrInputs
    /\ strPc = "pair" /\ strRes = "false"

\* strSig == strOther
EqualsStr ==
    /\ strPc = "pair"
    /\ strRes' = eq_str(strSig, strOther)
    /\ strPc' = "compared"
    /\ UNCHANGED <<strSig, strOther, outsideStr>>

NextStr == EqualsStr

SpecStr == InitStr /\ [][NextStr]_vars

-----------------------------------------------------------------------------
(* The unixexec transport as a state machine: the options of an address     *)
(* are turned into a UnixExec, connect spawns the child and the bridging    *)
(* task, and the task copies until its copies finish.                       *)

OptKeys == {"path"} \cup {ArgKey(i) : i \in 0..MaxArgv}
OptValues == {"a", "b"}
OptionMaps == UNION {[K -> OptValues] : K \in SUBSET OptKeys}

InitExec ==
    /\ ConnIdle /\ SigIdle /\ ValIdle /\ CmpIdle /\ StrIdle
    /\ opts \in OptionMaps /\ build \in Builds
    /\ exPc = "options" /\ exec = NoExec
    /\ copy = NoCopy /\ task = "none" /\ warned = FALSE /\ moved = 0

\* UnixExec::from_options(opts)
FromOptions ==
    /\ exPc = "options"
    /\ exec' = from_options(opts)
    /\ exPc' = IF exec'.ok THEN "parsed" ELSE "failed"
    /\ UNCHANGED <<opts, build, copy, task, warned, moved, outsideExec>>

\* UnixExec::connect: spawn, the stdio handles or the socket pair may fail
\* (the `?`s); otherwise the bridging task is spawned and detached.
Connect ==
    /\ exPc = "parsed"
    /\ \/ /\ exPc' = "connect_err"
          /\ UNCHANGED <<copy, task>>
       \/ /\ exPc' = "connected"
          /\ copy' = [d \in Directions |-> "copying"]
          /\ task' = "running"
    /\ UNCHANGED <<opts, exec, build, warned, moved, outsideExec>>

\* the task copies a chunk in direction d
Forward(d) ==
    /\ task = "running" /\ copy[d] = "copying" /\ moved < MaxChunks
    /\ moved' = moved + 1
    /\ UNCHANGED <<opts, exPc, exec, build, copy, task, warned, outsideExec>>

\* The source of direction d is at end of file: that copy returns Ok.  The
\* join of the two copies, like copy_bidirectional, is done only when the
\* other copy has finished too.
SourceEof(d) ==
    /\ task = "running" /\ copy[d] = "copying"
    /\ copy' = [copy EXCEPT ![d] = "eof"]
    /\ task' = IF BothFinished(copy') THEN "ended" ELSE "running"
    /\ UNCHANGED <<opts, exPc, exec, build, warned, moved, outsideExec>>

\* A read or write of direction d fails.  copy_bidirectional returns the
\* error at once and the task logs it; the join of the async-io build keeps
\* the error as that copy's output and goes on waiting for the other copy.
CopyError(d) ==
    /\ task = "running" /\ copy[d] = "copying"
    /\ copy' = [copy EXCEPT ![d] = "failed"]
    /\ IF build = "tokio"
       THEN task' = "ended" /\ warned' = TRUE
       ELSE /\ task' = IF BothFinished(copy') THEN "ended" ELSE "running"
            /\ UNCHANGED warned
    /\ UNCHANGED <<opts, exPc, exec, build, moved, outsideExec>>

NextExec ==
    \/ FromOptions
    \/ Connect
    \/ \E d \in Directions : Forward(d)
    \/ \E d \in Directions : SourceEof(d)
    \/ \E d \in Directions : CopyError(d)

SpecExec == InitExec /\ [][NextExec]_vars

-----------------------------------------------------------------------------

Next ==
    \/ SendAuth
    \/ ReadOkLine
    \/ SendBegin
    \/ CallBegin("hello")
    \/ CallBegin("user")
    \/ ReadHeader
    \/ ReadBody
    \/ CheckHelloReply

Spec == Init /\ [][Next]_vars

-----------------------------------------------------------------------------
(* call_method on an open connection, with the inbound stream that its      *)
(* termination is stated for.                                               *)

\* call_method is in its read loop
InCall == pc \in {"hdr", "body"}

\* the header read delivers, in full, the header of a MethodReturn or Error
\* frame
ReplyHeader ==
    /\ ReadHeader
    /\ ~hdrShort' /\ pc' = "body" /\ inc'.type \in {"MethodReturn", "Error"}

\* the body read delivers, in full, a frame that answers the call's serial
ReplyDecoded ==
    /\ ReadBody
    /\ ~bodyShort'
    /\ result'.via = "reply" \/ (matchSkipped' /\ ~matchSkipped)

InitCall == Aged /\ SigIdle /\ ValIdle /\ CmpIdle /\ StrIdle /\ ExecIdle

NextCall == CallBegin("user") \/ ReadHeader \/ ReadBody

\* The reads of the loop are blocking reads on a stream on which frames keep
\* arriving, so each of them returns (weak fairness); the stream delivers a
\* frame that answers the call's serial whenever the call keeps waiting for
\* it (strong fairness of the two reads that deliver it).
SpecCall ==
    /\ InitCall /\ [][NextCall]_vars
    /\ WF_vars(ReadHeader) /\ WF_vars(ReadBody)
    /\ SF_vars(ReplyHeader) /\ SF_vars(ReplyDecoded)

-----------------------------------------------------------------------------
(* Properties of the connection *)

MsgWrites == {i \in 1..Len(written) : written[i].kind = "msg"}

\* C1: call_method for serial N returns Ok(frame) only for a MethodReturn frame
\* whose ReplySerial is N; a call that ends on a reply frame ends on the first
\* decoded frame that is a MethodReturn or Error with ReplySerial = N, so the
\* loop never goes on past such a frame and never ends on another frame.
C1_ReplyMatchedBySerial ==
    /\ result.kind = "Ok" =>
          /\ result.via = "reply"
          /\ result.frame.type = "MethodReturn"
          /\ result.frame.rs = cur
    /\ result.via = "reply" => IsReplyTo(result.frame, cur)
    /\ ~matchSkipped

\* C1 witness: a user's call skipped a frame and then returned its MethodReturn
C1_Witness ==
    /\ pc = "ready" /\ caller = "user" /\ skipped >= 1
    /\ result.kind = "Ok" /\ result.frame.rs = cur

\* the result is MethodError(name, detail), detail = "" standing for None
IsMethodError(r, name, hasDetail, detail) ==
    /\ r.kind = "Err" /\ r.err = "MethodError" /\ r.name = name
    /\ r.hasDetail = hasDetail /\ r.detail = detail

\* the call ended on an Error frame that answers its serial
EndedOnError == result.via = "reply" /\ result.frame.type = "Error"

\* C2 as stated: an Error reply gives MethodError(name, Some(detail)) whenever
\* the frame has an ErrorName field and body signature "s", MethodError(name,
\* None) whenever it has an ErrorName field and another or no body signature,
\* and InvalidReply when it has no ErrorName field.
C2_ErrorReplyAsStated ==
    EndedOnError =>
        LET f == result.frame
        IN  /\ result.kind = "Err"
            /\ (f.en # "absent" /\ f.sig = "s") =>
                  IsMethodError(result, f.en, TRUE, f.body)
            /\ (f.en # "absent" /\ f.sig # "s") =>
                  IsMethodError(result, f.en, FALSE, "")
            /\ f.en = "absent" => result.err = "InvalidReply"

\* C2 amended: an Error reply always gives Err, never Ok.  With no ErrorName
\* field it is InvalidReply.  With an ErrorName that decodes to a string it is
\* MethodError(name, Some(detail)) if the body signature is "s" and the body
\* decodes to the string detail, and MethodError(name, None) if the body
\* signature is absent or not "s".  An ErrorName whose value does not decode
\* gives MessageField, one that is not a string gives Variant, and under
\* signature "s" a body that cannot be read gives Message and one that is not
\* a string gives Variant.
C2_ErrorReplyMapped ==
    EndedOnError =>
        LET f == result.frame
            named == f.en \notin {"absent", "badvalue", "nonstr"}
        IN  /\ result.kind = "Err"
            /\ f.en = "absent" => result.err = "InvalidReply"
            /\ f.en = "badvalue" => result.err = "MessageField"
            /\ f.en = "nonstr" => result.err = "Variant"
            /\ (named /\ f.sig = "s" /\ f.body \in {"d1", "d2"}) =>
                  IsMethodError(result, f.en, TRUE, f.body)
            /\ (named /\ f.sig = "s" /\ f.body = "nobody") => result.err = "Message"
            /\ (named /\ f.sig = "s" /\ f.body = "notstr") => result.err = "Variant"
            /\ (named /\ f.sig # "s") => IsMethodError(result, f.en, FALSE, "")

\* C2 witness: a user's call ended on an Error reply without body signature
C2_Witness ==
    /\ pc = "ready" /\ EndedOnError /\ result.frame.en = "UnknownMethod"
    /\ result.frame.sig = "absent"
    /\ IsMethodError(result, "UnknownMethod", FALSE, "")

\* C3: every METHOD_CALL frame written on the socket carries a nonzero serial,
\* the call made when the counter is 2^32 - 1 included.
C3_SerialNonzero == \A i \in MsgWrites : written[i].serial # U32Zero

\* C4: the frames of one connection are written in strictly increasing serial
\* order, so no two calls use the same serial.
C4_SerialsIncrease ==
    \A i, j \in MsgWrites : i < j => U32Less(written[i].serial, written[j].serial)

\* C5 as stated: the counter changes only in a step that writes a message.
C5_ChangedOnlyWhenWritten ==
    [][serial' # serial =>
         /\ Len(written') = Len(written) + 1
         /\ written'[Len(written')].kind = "msg"]_vars

\* C5 amended: the counter changes only in next_serial, the first statement of
\* call_method, where it is incremented by one (mod 2^32) and handed to the
\* call; this happens before the message is built and written, so a call that
\* fails to build or to write has consumed a serial as well.  No other step
\* (handshake, header read, body read, skip) changes it.
C5_ChangedOnlyByNextSerial ==
    [][IF pc \in {"hello", "ready"} /\ pc' # "panicked"
       THEN serial' = U32Succ(serial) /\ cur' = serial'
       ELSE serial' = serial]_vars

\* C5 witness: a call failed to build its message after taking a serial that
\* no written frame carries
C5_Witness ==
    /\ pc = "ready" /\ result.via = "build" /\ serial = cur
    /\ \A i \in MsgWrites : written[i].serial # cur

\* new_session has read a line after AUTH and acted on it
LineRead ==
    /\ Len(written) >= 1 /\ written[1].kind = "auth"
    /\ pc \notin {"start", "await_ok"} /\ result.via # "read_line"
    /\ caller # "user"

\* the line begins with the bytes 'OK ' and a GUID token follows
BeginsWithOkAndGuid(line) ==
    /\ Len(line) >= 4
    /\ SubSeq(line, 1, 3) = <<"O", "K", " ">>
    /\ split_whitespace(SubSeq(line, 4, Len(line))) # <<>>

\* C6: a line that does not begin with 'OK ' followed by a GUID token makes
\* new_session return Handshake, with neither BEGIN nor Hello written and no
\* Connection made.
C6_OnlyOkGuidAccepted ==
    (LineRead /\ ~BeginsWithOkAndGuid(okLine)) =>
        /\ pc = "failed" /\ result.err = "Handshake"
        /\ Len(written) = 1

\* new_session has returned Ok(connection) and the connection is not yet used
SessionOpened ==
    pc = "ready" /\ calls = 0 /\ Len(written) >= 1 /\ written[1].kind = "auth"

\* C7: in new_session the writes are AUTH, then BEGIN (only once the OK line
\* has been read), then the Hello METHOD_CALL with serial 1 as the first
\* message; the stored server_guid is the token that follows OK in the line.
C7_HandshakeOrder ==
    (Len(written) >= 1 /\ written[1].kind = "auth") =>
        /\ pc = "await_ok" => Len(written) = 1
        /\ Len(written) >= 2 =>
              /\ written[2].kind = "begin"
              /\ caller = "user" \/
                    (LET components == split_whitespace(okLine)
                     IN  /\ Len(components) >= 2
                         /\ components[1] = <<"O", "K">>
                         /\ server_guid = components[2])
        /\ Len(written) >= 3 =>
              /\ written[3] = Wr("msg", "Hello", <<0, 1>>)
              /\ \A i \in MsgWrites : i >= 3
        /\ pc \in {"hdr", "body", "hello_reply", "ready"} => Len(written) >= 3
        /\ SessionOpened => (Len(written) = 3 /\ serial = <<0, 1>>)

\* C7 witness: new_session returned a connection after a line with two spaces
C7_Witness ==
    /\ SessionOpened /\ okLine = <<"O", "K", " ", " ", "K", "CR", "LF">>
    /\ server_guid = <<"K">>

\* C8: a read that delivers fewer bytes than requested ends the call with an
\* error at once; nothing is decoded, skipped or returned from a partly
\* filled buffer.
C8_ShortReadFails ==
    (hdrShort \/ bodyShort) =>
        /\ pc \in {"ready", "failed"}
        /\ result.kind = "Err" /\ result.via \in {"io", "codec"}
        /\ inc = NoInc

\* C9: a header that reports bytes_to_completion = 0 ends the call with an
\* error in the same step: the body is not read and the loop does not go on.
C9_ZeroBytesLeftFails ==
    (inc.type # "None" /\ inc.btc = 0) =>
        /\ pc \in {"ready", "failed"}
        /\ result.kind = "Err" /\ result.err = "Handshake" /\ result.via = "zero"

\* C9 witness: a user's call ended on a header with nothing left to read,
\* after a frame had been skipped
C9_Witness ==
    /\ pc = "ready" /\ inc.type = "Signal" /\ inc.btc = 0 /\ skipped >= 1
    /\ result.err = "Handshake"

-----------------------------------------------------------------------------
(* Properties of the signature engine *)

\* Where the complete type that starts at position i of s ends (the position
\* after it), found by skipping 'a' and 'm' prefixes and matching brackets;
\* Len(s) + 2 when s ends before the type is complete.
RECURSIVE CloseAt(_, _, _), TypeEnd(_, _), TypesFrom(_, _)
CloseAt(s, i, depth) ==
    IF i > Len(s) THEN Len(s) + 2
    ELSE IF s[i] \in {"(", "{"} THEN CloseAt(s, i + 1, depth + 1)
    ELSE IF s[i] \in {")", "}"}
         THEN (IF depth = 1 THEN i + 1 ELSE CloseAt(s, i + 1, depth - 1))
    ELSE CloseAt(s, i + 1, depth)
TypeEnd(s, i) ==
    IF i > Len(s) THEN Len(s) + 2
    ELSE IF s[i] \in {"a", "m"} THEN TypeEnd(s, i + 1)
    ELSE IF s[i] \in {"(", "{"} THEN CloseAt(s, i + 1, 1)
    ELSE i + 1
\* the number of complete types of s from position i on
TypesFrom(s, i) == IF i > Len(s) THEN 0 ELSE 1 + TypesFrom(s, TypeEnd(s, i))
TopLevelTypes(s) == TypesFrom(s, 1)

\* C10: for a valid signature string S, parse(S).to_string() is S when S is
\* empty or one complete type, and "(" + S + ")" when S is two or more
\* complete types.
C10_ParseToString ==
    sigPc = "shown" =>
        sigOut = IF TopLevelTypes(sigIn) >= 2
                 THEN <<"(">> \o sigIn \o <<")">>
                 ELSE sigIn

\* C10 witness: a multi-field signature with a nested structure was parsed
\* and shown
C10_Witness ==
    /\ sigPc = "shown" /\ sigIn = <<"a", "i", "(", "s", ")">>
    /\ sigOut = <<"(", "a", "i", "(", "s", ")", ")">>

\* C11 as stated: for every valid top-level signature string S, a single
\* parenthesised structure such as "(ii)" included,
\* parse(S).to_string_no_parens() is S.
C11_NoParensAsStated == sigPc = "shown_np" => sigOut = sigIn

\* S is one complete type and that type is a structure
SingleStructure(s) == TopLevelTypes(s) = 1 /\ Head(s) = "("

\* C11: for a valid signature string S, parse(S).to_string_no_parens() is S,
\* except when S is a single parenthesised structure: then it is S without
\* its outermost pair of parentheses.
C11_NoParensDropsOuter ==
    sigPc = "shown_np" =>
        sigOut = IF SingleStructure(sigIn)
                 THEN SubSeq(sigIn, 2, Len(sigIn) - 1)
                 ELSE sigIn

\* C11 witness: "(ii)" was parsed and written without parentheses as "ii"
C11_Witness ==
    /\ sigPc = "shown_np" /\ sigIn = <<"(", "i", "i", ")">>
    /\ sigOut = <<"i", "i">>

\* C13: validate(S) succeeds exactly when parse(S) succeeds.
C13_ValidateIffParse ==
    sigPc = "validated" => (sigCheck = "ok" <=> sigVal.ok)

\* C13 witness: a dict passed both validate and parse
C13_Witness ==
    /\ sigPc = "validated" /\ sigIn = <<"a", "{", "s", "i", "}">>
    /\ sigCheck = "ok" /\ sigVal.ok

-----------------------------------------------------------------------------
(* Properties of Signature values *)

\* C12: for every Signature value, parsed or built with the constructors,
\* string_len() is the length of to_string(), the outer parentheses of a
\* Structure included.
C12_StringLenIsLength == valPc = "shown" => valLen = Len(valStr)

\* C12 witness: a built structure of a maybe was measured and shown as "(ms)"
C12_Witness ==
    /\ valPc = "shown"
    /\ val = Sig("Structure", <<Sig("Maybe", <<Sig("Str", <<>>)>>)>>)
    /\ valLen = 4 /\ valStr = <<"(", "m", "s", ")">>

\* the variants C17's table lists
TableVariants ==
    {"U8", "Variant", "Signature", "I16", "U16", "I32", "U32", "Bool", "Str",
     "ObjectPath", "Fd", "Array", "Dict", "I64", "U64", "F64", "Unit", "Structure"}

\* C17: the D-Bus alignment of a Signature depends only on its outermost
\* variant: 1 for U8, Variant, Signature; 2 for I16, U16; 4 for I32, U32,
\* Bool, Str, ObjectPath, Fd, Array, Dict; 8 for I64, U64, F64, Unit,
\* Structure; so it is one of 1, 2, 4, 8 whatever the children are.
C17_DBusAlignmentTable ==
    (valPc = "DBus" /\ val.tag \in TableVariants) =>
        /\ val.tag \in {"U8", "Variant", "Signature"} => valAlign = 1
        /\ val.tag \in {"I16", "U16"} => valAlign = 2
        /\ val.tag \in {"I32", "U32", "Bool", "Str", "ObjectPath", "Fd",
                         "Array", "Dict"} => valAlign = 4
        /\ val.tag \in {"I64", "U64", "F64", "Unit", "Structure"} => valAlign = 8
        /\ valAlign \in {1, 2, 4, 8}

\* C17 witness: a structure whose only field is a byte aligns to 8
C17_Witness ==
    /\ valPc = "DBus" /\ val = Sig("Structure", <<Sig("U8", <<>>)>>)
    /\ valAlign = 8

\* C18 as stated: the GVariant alignment of Array(c) and of Maybe(c) is the
\* GVariant alignment of c, and that of Dict{k, v} is the GVariant alignment
\* of v, for every k and v.
C18_GVariantAsStated ==
    valPc = "GVariant" =>
        /\ val.tag \in {"Array", "Maybe"} =>
              valAlign = alignment_gvariant(val.kids[1])
        /\ val.tag = "Dict" => valAlign = alignment_gvariant(val.kids[2])

\* C18: the GVariant alignment of Array(c) and of Maybe(c) is the GVariant
\* alignment of c; that of Dict{k, v} is the larger of the GVariant
\* alignments of k and of v.
C18_GVariantDictIsMax ==
    valPc = "GVariant" =>
        /\ val.tag \in {"Array", "Maybe"} =>
              valAlign = alignment_gvariant(val.kids[1])
        /\ val.tag = "Dict" =>
              LET k == alignment_gvariant(val.kids[1])
                  v == alignment_gvariant(val.kids[2])
              IN  /\ valAlign >= k /\ valAlign >= v
                  /\ valAlign \in {k, v}

\* C18 witness: a dict from 64-bit keys to bytes aligns to 8, its key's
\* alignment
C18_Witness ==
    /\ valPc = "GVariant"
    /\ val = Sig("Dict", <<Sig("I64", <<>>), Sig("U8", <<>>)>>)
    /\ valAlign = 8

\* C14: the ordering of Signature values is consistent with equality:
\* cmp(a, b) is Equal exactly when a == b, so two values of different
\* variants never compare Equal.
C14_CmpEqualIffEq ==
    cmpPc = "compared" => (cmpOrd = "Equal" <=> cmpEq)

\* C15: sig == s for a string s is true exactly when s is sig.to_string();
\* it is false for a string with extra or different characters and for a
\* string that parses to a different signature.
C15_EqStrIffToString ==
    strPc = "compared" =>
        (strRes = "true" <=> strOther = to_string(strSig))

\* C21: comparing a Signature with a string always returns true or false
\* and never aborts: every slice the comparison takes lies within the string,
\* also when the string is non-empty and shorter than the fields' strings.
C21_EqStrNeverAborts ==
    strPc = "compared" => strRes \in {"true", "false"}

-----------------------------------------------------------------------------
(* Properties of the unixexec transport *)

\* C16: the bridging task of the exec transport ends when either stream
\* closes: once one of its two copies has finished, by end of file or by a
\* failure, the task has ended, even if the other direction is open and idle.
C16_EndsWhenEitherCloses ==
    (task # "none" /\ \E d \in Directions : copy[d] # "copying") =>
        task = "ended"

\* the largest K such that argv1 .. argvK are all present
Contiguous(o) ==
    CHOOSE k \in 0..MaxArgv :
        /\ \A j \in 1..k : ArgKey(j) \in DOMAIN o
        /\ k < MaxArgv => ArgKey(k + 1) \notin DOMAIN o

\* C19: UnixExec::from_options fails, with an Address error, exactly when the
\* options have no `path`; otherwise path is the `path` option, args is
\* [argv1, .., argvK] for the largest K with argv1 .. argvK all present
\* (options after a gap are ignored), and arg0 is argv0 when it is present.
C19_FromOptions ==
    exPc \notin {"idle", "options"} =>
        /\ exec.ok <=> "path" \in DOMAIN opts
        /\ ~exec.ok => exec.err = "Address"
        /\ exec.ok =>
              /\ exec.path = opts["path"]
              /\ exec.args = [j \in 1..Contiguous(opts) |-> opts[ArgKey(j)]]
              /\ exec.arg0 = IF "argv0" \in DOMAIN opts THEN Some(opts["argv0"])
                              ELSE None

\* C19 witness: argv0, argv1 and argv3 are given but not argv2, and args is
\* argv1 alone
C19_Witness ==
    /\ exPc = "parsed"
    /\ {"path", "argv0", "argv1", "argv3"} \subseteq DOMAIN opts
    /\ "argv2" \notin DOMAIN opts
    /\ opts["argv1"] = "a" /\ opts["argv3"] = "b"
    /\ exec.args = <<"a">> /\ exec.arg0 = Some(opts["argv0"])

-----------------------------------------------------------------------------
(* The outgoing frame of call_method *)

\* C20: call_method writes all bytes of the outgoing frame before it reads
\* replies: the read loop is never entered, and never runs, while part of
\* the frame is unsent.
C20_WholeFrameBeforeRead == pc \in {"hdr", "body"} => ~shortWrite

-----------------------------------------------------------------------------
(* Termination of call_method *)

\* the ways out of the read loop: a frame that answers the call's serial, a
\* read that fails, a frame that does not decode, a frame of no further bytes
LoopExits == {"reply", "io", "codec", "zero"}

\* C22: call_method for serial N returns once the inbound stream delivers a
\* MethodReturn or Error frame with ReplySerial = N; until then it leaves its
\* loop only on a read that fails or a frame that does not decode, never on
\* a timeout or on a count of skipped frames, and every frame it skips puts
\* it back at the next read.
C22_CallReturnsOnReply ==
    /\ InCall ~> ~InCall
    /\ [][/\ (InCall /\ ~InCall') => result'.via \in LoopExits
          /\ (InCall /\ skipped' > skipped) => (pc' = "hdr" /\ result' = NoResult)]_vars

\* C22 witness: a user's call has skipped MaxSkip frames and is still reading
C22_Witness ==
    /\ pc = "hdr" /\ caller = "user" /\ skipped = MaxSkip /\ result = NoResult

====
